---- MODULE Spec2Model ----
(***************************************************************************)
(* typesafe-env: createEnv / createSplitEnv (src/src/index.ts).            *)
(*                                                                         *)
(* JavaScript strings that the code inspects (keys, the client prefix, the *)
(* error message) are sequences of tokens, so that startsWith, join and    *)
(* string concatenation are computed rather than assumed.  Values are      *)
(* tagged pairs <<type, text>>, so that a coerced number differs from the  *)
(* raw string it came from.  An object is the sequence of its entries      *)
(* <<key, value>> in insertion order, which is the order Object.entries    *)
(* and the schema engine walk it in.                                       *)
(***************************************************************************)
EXTENDS Integers, Sequences, FiniteSets, TLC

VARIABLES
    call,      \* the last call made: the function, its options, the host it ran in
    out,       \* what that call did: returned value or raised error, and its trace
    obj,       \* current entries of the object the call returned
    src,       \* current entries of the source object the call read
    assign,    \* outcome of the last attempt to reassign a field of obj
    srcFrozen, \* whether the source object is frozen
    ambient,   \* process.env and import.meta.env: objects every call of the process shares
    held       \* a source object the caller keeps after a call, to pass it again

vars == <<call, out, obj, src, assign, srcFrozen, ambient, held>>

\* Largest number of entries of a source mapping handed to a call.
MaxSourceSize == 2

-----------------------------------------------------------------------------
(* Values, keys, objects *)

Str(s) == <<"string", s>>
Num(s) == <<"number", s>>
Undefined == <<"undefined", "">>
\* A nested object value { ... }, held as its own entries.
Obj(m) == <<"object", m>>

None == [has |-> FALSE, val |-> << >>]
Some(v) == [has |-> TRUE, val |-> v]

\* {}
EmptyMap == << >>

\* Object.keys(o), as a sequence and as a set
KeysOf(o) == [i \in 1..Len(o) |-> o[i][1]]
KeySet(o) == {o[i][1] : i \in 1..Len(o)}

\* k in o
Has(o, k) == \E i \in 1..Len(o) : o[i][1] = k

\* o[k], for a key o has
Get(o, k) == o[CHOOSE i \in 1..Len(o) : o[i][1] = k][2]

\* o[k] = v: an existing key keeps its place, a new key goes last
Put(o, k, v) ==
    IF Has(o, k)
    THEN [i \in 1..Len(o) |-> IF o[i][1] = k THEN <<k, v>> ELSE o[i]]
    ELSE Append(o, <<k, v>>)

\* An object as the program holds it: its entries, whether it is frozen, and
\* whether Object.freeze accepts it (node's process.env does not).
Ref(entries, frozen, freezable) ==
    [entries |-> entries, frozen |-> frozen, freezable |-> freezable]

\* An object literal: not frozen, freezable.
Plain(entries) == Ref(entries, FALSE, TRUE)

VITE_A == <<"V", "_", "A">>
vite_A == <<"v", "_", "A">>
SECRET == <<"S", "K">>
PORT == <<"P">>

\* Keys a caller's source may hold.
Keys == {VITE_A, vite_A, SECRET}

\* Keys a schema may declare.
ShapeKeys == {VITE_A, SECRET}

RawValues == {Str("4000"), Str("abc")}
NumericStrings == {"4000", "3000"}
NewValue == Str("new-value")

\* Values a source holds under key k; the lower-case key is there for the
\* case-sensitive prefix test and holds one value.
ValuesAt(k) == IF k = vite_A THEN {Str("abc")} ELSE RawValues

\* The orders in which a literal can list at most n distinct keys of K.
KeyOrders(K, n) ==
    {ks \in UNION {[1..m -> K] : m \in 0..n} :
        \A i, j \in 1..Len(ks) : i # j => ks[i] # ks[j]}

\* Object literals over the keys: every choice of keys, of their order and
\* of their values.
Sources ==
    UNION {{[i \in 1..Len(ks) |-> <<ks[i], vs[i]>>] :
               vs \in {f \in [1..Len(ks) -> RawValues] :
                          \A i \in 1..Len(ks) : f[i] \in ValuesAt(ks[i])}} :
           ks \in KeyOrders(Keys, MaxSourceSize)}

-----------------------------------------------------------------------------
(* Hosts: the ambient globals a call can see *)

ProcessEnv == <<<<SECRET, Str("abc")>>>>
ImportMetaEnv == <<<<VITE_A, Str("4000")>>>>

\* The two ambient objects when the process starts.
InitialAmbient ==
    [processEnv |-> Ref(ProcessEnv, FALSE, FALSE),
     importMetaEnv |-> Plain(ImportMetaEnv)]

\* mockServerEnvironment sets window to undefined, mockBrowserEnvironment to
\* {}; both leave process.env in place.
NodeHost ==
    [window |-> "undefined", processEnv |-> Some(ambient.processEnv), importMetaEnv |-> None]
MockedBrowserHost ==
    [window |-> "object", processEnv |-> Some(ambient.processEnv), importMetaEnv |-> None]
NullWindowHost ==
    [window |-> "null", processEnv |-> Some(ambient.processEnv), importMetaEnv |-> None]
\* A browser bundle: no process, import.meta.env or nothing.
ViteBrowserHost ==
    [window |-> "object", processEnv |-> None, importMetaEnv |-> Some(ambient.importMetaEnv)]
BareBrowserHost == [window |-> "object", processEnv |-> None, importMetaEnv |-> None]

Hosts == {NodeHost, MockedBrowserHost, NullWindowHost, ViteBrowserHost, BareBrowserHost}

\* The hosts the two mocks produce.  A call that is given its source reads
\* window only, and is made in these.
MockHosts == {NodeHost, MockedBrowserHost}

-----------------------------------------------------------------------------
(* The schema engine (zod), as far as createEnv uses it *)

\* z.object(shape): the shape lists its fields in declaration order; a field
\* is z.string() ("string"), z.coerce.number().default(3000) ("number") or
\* the nested z.object({ P: z.string() }) ("nested"); unknown keys are
\* stripped.
ZodObject(shape) ==
    [kind |-> "object", shape |-> shape, unknownKeys |-> "strip"]

\* z.record(z.string(), z.coerce.number()): not a ZodObject; every value is
\* a z.coerce.number() without default ("coerced").
ZodRecord == [kind |-> "record", shape |-> EmptyMap, unknownKeys |-> "strip"]

\* z.any(): accepts every input and hands back the input itself.
ZodAny == [kind |-> "any", shape |-> EmptyMap, unknownKeys |-> "strip"]

IsZodObject(schema) == schema.kind = "object"

\* schema.strict()
Strict(schema) == [schema EXCEPT !.unknownKeys = "strict"]

FieldTypes == {"string", "number"}

Shapes ==
    UNION {{[i \in 1..Len(ks) |-> <<ks[i], ts[i]>>] : ts \in [1..Len(ks) -> FieldTypes]} :
           ks \in KeyOrders(ShapeKeys, Cardinality(ShapeKeys))}
ObjectSchemas == {ZodObject(sh) : sh \in Shapes}
Schemas == ObjectSchemas \cup {ZodRecord, ZodAny}

Issue(path, message) == [path |-> path, message |-> message]

\* Number(text) is NaN unless text is numeric.
CoerceOk(v) == v[1] = "number" \/ (v[1] = "string" /\ v[2] \in NumericStrings)

NestedOk(v) ==
    v[1] = "object" /\ Has(v[2], PORT) /\ Get(v[2], PORT)[1] = "string"

\* One field against its type: does it parse, to what, and if not, the
\* issue it raises.
FieldOk(type, input, k) ==
    LET present == Has(input, k) /\ Get(input, k) # Undefined IN
    IF type = "string" THEN present /\ Get(input, k)[1] = "string"
    ELSE IF type = "number" THEN (~present) \/ CoerceOk(Get(input, k))
    ELSE IF type = "coerced" THEN Has(input, k) /\ CoerceOk(Get(input, k))
    ELSE present /\ NestedOk(Get(input, k))

FieldValue(type, input, k) ==
    LET present == Has(input, k) /\ Get(input, k) # Undefined IN
    IF type = "string" THEN Get(input, k)
    ELSE IF type = "number"
         THEN (IF present THEN Num(Get(input, k)[2]) ELSE Num("3000"))
    ELSE IF type = "coerced" THEN Num(Get(input, k)[2])
    ELSE Obj(<<<<PORT, Get(Get(input, k)[2], PORT)>>>>)

FieldIssue(type, input, k) ==
    LET present == Has(input, k) /\ Get(input, k) # Undefined IN
    IF type = "string" THEN Issue(<<k>>, IF present THEN "Expected string" ELSE "Required")
    ELSE IF type \in {"number", "coerced"} THEN Issue(<<k>>, "Expected number, received nan")
    ELSE IF present /\ Get(input, k)[1] = "object"
         THEN LET inner == Get(input, k)[2] IN
              Issue(<<k, PORT>>,
                    IF Has(inner, PORT) /\ Get(inner, PORT) # Undefined
                    THEN "Expected string" ELSE "Required")
    ELSE Issue(<<k>>, IF present THEN "Expected object" ELSE "Required")

\* The fields that fail on input, in the order the schema walks them.
RECURSIVE FailingFields(_, _)
FailingFields(fields, input) ==
    IF fields = << >> THEN << >>
    ELSE (IF FieldOk(Head(fields)[2], input, Head(fields)[1])
          THEN << >> ELSE <<Head(fields)>>) \o FailingFields(Tail(fields), input)

\* schema.safeParse(input): an object schema walks its shape in declaration
\* order, a record schema walks the input in key order; every failing field
\* yields an issue, and a strict object adds one root issue for the keys it
\* does not declare.  An object or record schema builds a new object for its
\* data; z.any() returns the input object (same |-> TRUE).
SafeParse(schema, input) ==
    IF schema.kind = "any"
    THEN [success |-> TRUE, data |-> input, issues |-> << >>, same |-> TRUE]
    ELSE
    LET fields == IF schema.kind = "object" THEN schema.shape
                  ELSE [i \in 1..Len(input) |-> <<input[i][1], "coerced">>]
        bad == FailingFields(fields, input)
        fieldIssues == [i \in 1..Len(bad) |-> FieldIssue(bad[i][2], input, bad[i][1])]
        extra == KeySet(input) \ KeySet(fields)
        extraIssues == IF schema.unknownKeys = "strict" /\ extra # {}
                       THEN <<Issue(<< >>, "Unrecognized key(s) in object")>>
                       ELSE << >>
        issues == fieldIssues \o extraIssues
    IN  IF issues = << >>
        THEN [success |-> TRUE,
              data |-> [i \in 1..Len(fields) |->
                          <<fields[i][1], FieldValue(fields[i][2], input, fields[i][1])>>],
              issues |-> << >>, same |-> FALSE]
        ELSE [success |-> FALSE, data |-> EmptyMap, issues |-> issues, same |-> FALSE]

-----------------------------------------------------------------------------
(* src/src/index.ts *)

SecurityMessage ==
    <<"Attempted to access server-only environment variables on the client. ",
      "This is a security risk. Make sure server env is not imported in client code.">>

ValidationHeader == "Invalid environment variables:"

\* parts.join(sep) over strings held as token sequences
RECURSIVE Join(_, _)
Join(parts, sep) ==
    IF Len(parts) = 0 THEN << >>
    ELSE IF Len(parts) = 1 THEN parts[1]
    ELSE parts[1] \o <<sep>> \o Join(Tail(parts), sep)

FormatIssue(i) ==
    LET path == IF Len(i.path) # 0 THEN Join(i.path, ".") ELSE <<"(root)">>
    IN  path \o <<": ">> \o <<i.message>>

\* Mutant: only the first issue is reported.
defaultFormatZodError_FirstOnly(issues) == FormatIssue(issues[1])

defaultFormatZodError(issues) ==
    Join([n \in 1..Len(issues) |-> FormatIssue(issues[n])], "\n")

\* process.env, else import.meta.env, else a new {}
getDefaultEnvSource(h) ==
    IF h.processEnv.has THEN h.processEnv.val
    ELSE IF h.importMetaEnv.has THEN h.importMetaEnv.val
    ELSE Plain(EmptyMap)

isClientSide(h) == h.window # "undefined" /\ h.window # "null"

\* key.startsWith(prefix)
StartsWith(key, prefix) ==
    Len(prefix) <= Len(key) /\ SubSeq(key, 1, Len(prefix)) = prefix

\* Mutant: the filter keeps every entry.
FilterByPrefix_KeepAll(source, prefix) == source

\* Object.fromEntries(Object.entries(source).filter(([key]) => key.startsWith(prefix)))
FilterByPrefix(source, prefix) ==
    LET Keep(e) == StartsWith(e[1], prefix) IN SelectSeq(source, Keep)

\* Mutant: strict defaults to false.
StrictOf_DefaultFalse(o) == o.strict = "true"

\* Mutant: skipValidation is ignored.
SkipOf_Never(o) == FALSE

\* `strict = true`, `skipValidation = false` destructuring defaults
StrictOf(o) == o.strict # "false"
SkipOf(o) == o.skipValidation = "true"

\* runtimeEnv ?? envSource ?? getDefaultEnvSource()
ResolveSource(o, h) ==
    IF o.runtimeEnv.has THEN o.runtimeEnv.val
    ELSE IF o.envSource.has THEN o.envSource.val
    ELSE getDefaultEnvSource(h)

\* Which object the source is: one the caller passed, one of the two ambient
\* objects, or the {} made for the occasion.
SourceKind(o, h) ==
    IF o.runtimeEnv.has \/ o.envSource.has THEN "caller"
    ELSE IF h.processEnv.has THEN "processEnv"
    ELSE IF h.importMetaEnv.has THEN "importMetaEnv"
    ELSE "new"

\* Mutant: the filter applies on the server too, whenever a prefix is set.
ShouldFilter_Always(o, h) ==
    o.clientPrefix.has /\ o.clientPrefix.val # << >>

\* if (clientPrefix) { if (isClientSide() || isServer === false) ... }
ShouldFilter(o, h) ==
    /\ o.clientPrefix.has /\ o.clientPrefix.val # << >>
    /\ (isClientSide(h) \/ o.isServer = "false")

\* filteredEnv: the source object itself, or the new object the filter built
FilteredEnv(o, h) ==
    IF ShouldFilter(o, h)
    THEN Plain(FilterByPrefix(ResolveSource(o, h).entries, o.clientPrefix.val))
    ELSE ResolveSource(o, h)

\* strict && schema instanceof z.ZodObject ? schema.strict() : schema
FinalSchema(o) ==
    IF StrictOf(o) /\ IsZodObject(o.schema) THEN Strict(o.schema) ELSE o.schema

\* What one createEnv call went through: the steps it took, the mapping it
\* handed on, the schema it validated with.
Trace(o, steps, handed, validated) ==
    [schema |-> o.schema, isServer |-> o.isServer, clientPrefix |-> o.clientPrefix,
     steps |-> steps, handed |-> handed, validated |-> validated]

Raised(error, message, issues, handlerCalls, calls) ==
    [kind |-> "throw", error |-> error, value |-> EmptyMap, frozen |-> FALSE,
     alias |-> FALSE, message |-> message, issues |-> issues,
     handlerCalls |-> handlerCalls, calls |-> calls]

Returned(value, frozen, alias, calls) ==
    [kind |-> "return", error |-> "none", value |-> value, frozen |-> frozen,
     alias |-> alias, message |-> << >>, issues |-> << >>,
     handlerCalls |-> << >>, calls |-> calls]

\* Mutant: the guard sits after the skipValidation return.
GuardViolated_AfterSkip(o, h) ==
    o.isServer = "true" /\ isClientSide(h) /\ ~SkipOf(o)

\* if (isServer === true && isClientSide()) throw ...
GuardViolated(o, h) == o.isServer = "true" /\ isClientSide(h)

\* return filteredEnv: the object itself, which is the source object, frozen
\* or not as it stands, when no filter built a new one
ReturnRaw(o, h, filteredEnv, trace) ==
    Returned(filteredEnv.entries, filteredEnv.frozen, ~ShouldFilter(o, h), <<trace>>)

\* return Object.freeze(parsed.data): Object.freeze freezes its argument in
\* place and returns it.  parsed.data is a new object, or filteredEnv itself
\* when the schema handed its input back; that is the source object when no
\* filter built a new one, and Object.freeze raises a TypeError on an object
\* that cannot be frozen.
ReturnFrozen(o, h, filteredEnv, parsed, trace) ==
    IF parsed.same /\ ~filteredEnv.freezable
    THEN Raised("TypeError", <<"Cannot freeze">>, << >>, << >>, <<trace>>)
    ELSE Returned(parsed.data, TRUE, parsed.same /\ ~ShouldFilter(o, h), <<trace>>)

\* throw new Error(`Invalid environment variables:\n${msg}`)
ThrowInvalid(issues, trace) ==
    Raised("validation",
           <<ValidationHeader>> \o <<"\n">> \o defaultFormatZodError(issues),
           issues, << >>, <<trace>>)

\* Mutant: the handler is not consulted and the default error is raised.
CallOnError_Ignored(issues, trace) == ThrowInvalid(issues, trace)

\* return onError(parsed.error): the handler never returns
CallOnError(issues, trace) ==
    Raised("handler", <<"onError">>, issues, <<issues>>, <<trace>>)

createEnv(o, h) ==
    IF GuardViolated(o, h)
    THEN Raised("security", SecurityMessage, << >>, << >>,
                <<Trace(o, <<"guard">>, EmptyMap, None)>>)
    ELSE
    LET filteredEnv == FilteredEnv(o, h) IN
    IF SkipOf(o)
    THEN ReturnRaw(o, h, filteredEnv,
                   Trace(o, <<"guard", "resolve", "filter">>, filteredEnv.entries, None))
    ELSE
    LET finalSchema == FinalSchema(o)
        parsed == SafeParse(finalSchema, filteredEnv.entries)
        trace == Trace(o, <<"guard", "resolve", "filter", "safeParse">>,
                       filteredEnv.entries, Some(finalSchema))
    IN  IF ~parsed.success
        THEN IF o.onError
             THEN CallOnError(parsed.issues, trace)
             ELSE ThrowInvalid(parsed.issues, trace)
        ELSE ReturnFrozen(o, h, filteredEnv, parsed, trace)

EnvOpts(schema, runtimeEnv, envSource, strict, skipValidation, onError, clientPrefix, isServer) ==
    [schema |-> schema, runtimeEnv |-> runtimeEnv, envSource |-> envSource,
     strict |-> strict, skipValidation |-> skipValidation, onError |-> onError,
     clientPrefix |-> clientPrefix, isServer |-> isServer]

\* Mutant: the client call is made without clientPrefix.
SplitClientOpts_NoPrefix(o) ==
    EnvOpts(o.client, Some(o.runtimeEnv), None, "undefined", o.skipValidation,
            o.onError, None, "false")

\* The three createEnv calls createSplitEnv makes.
SplitClientOpts(o) ==
    EnvOpts(o.client, Some(o.runtimeEnv), None, "undefined", o.skipValidation,
            o.onError, Some(o.clientPrefix), "false")

SplitServerOpts(o) ==
    EnvOpts(o.server, Some(o.runtimeEnv), None, "undefined", o.skipValidation,
            o.onError, None, "true")

\* Mutant: { ...clientEnv, ...serverEnv }, the server's value wins.
Spread_ServerWins(a, b) ==
    LET Added(e) == ~Has(a, e[1]) IN a \o SelectSeq(b, Added)

\* { ...serverEnv, ...clientEnv }: a's keys in a's order, each with b's value
\* when b has the key, then b's other keys in b's order
Spread(a, b) ==
    LET Added(e) == ~Has(a, e[1]) IN
    [i \in 1..Len(a) |-> IF Has(b, a[i][1]) THEN <<a[i][1], Get(b, a[i][1])>> ELSE a[i]]
        \o SelectSeq(b, Added)

\* Object.freeze reached the source object itself.
FreezesSource(r) == r.kind = "return" /\ r.frozen /\ r.alias

\* The source after createSplitEnv: frozen when one of the createEnv calls
\* it made froze it.
SplitFreezesSource(o, h) ==
    IF isClientSide(h)
    THEN FreezesSource(createEnv(SplitClientOpts(o), h))
    ELSE LET serverEnv == createEnv(SplitServerOpts(o), h) IN
         \/ FreezesSource(serverEnv)
         \/ serverEnv.kind = "return" /\ FreezesSource(createEnv(SplitClientOpts(o), h))

createSplitEnv(o, h) ==
    IF isClientSide(h)
    THEN createEnv(SplitClientOpts(o), h)
    ELSE
    LET serverEnv == createEnv(SplitServerOpts(o), h) IN
    IF serverEnv.kind = "throw" THEN serverEnv
    ELSE
    LET clientEnv == createEnv(SplitClientOpts(o), h) IN
    IF clientEnv.kind = "throw"
    THEN [clientEnv EXCEPT !.calls = serverEnv.calls \o clientEnv.calls]
    ELSE Returned(Spread(serverEnv.value, clientEnv.value), FALSE, FALSE,
                  serverEnv.calls \o clientEnv.calls)

-----------------------------------------------------------------------------
(* The callers: inputs, and what they do with the result *)

EnvSourceArg == <<<<vite_A, Str("abc")>>>>

\* <<runtimeEnv, envSource>> as passed to createEnv, at least one of them given
SourceArgs ==
    {<<Some(Plain(s)), None>> : s \in Sources}
        \cup {<<None, Some(Plain(EnvSourceArg))>>,
              <<Some(Plain(ProcessEnv)), Some(Plain(EnvSourceArg))>>}

\* A schema with a nested object field, and sources for it.
NestedSchemas ==
    {ZodObject(<<<<SECRET, "nested">>>>),
     ZodObject(<<<<VITE_A, "number">>, <<SECRET, "nested">>>>)}

NestedValues ==
    {Obj(EmptyMap), Obj(<<<<PORT, Str("abc")>>>>), Obj(<<<<PORT, Num("4000")>>>>),
     Str("abc")}

NestedSources ==
    {<<<<SECRET, v>>>> : v \in NestedValues}
        \cup {<<<<VITE_A, Str("abc")>>, <<SECRET, v>>>> : v \in NestedValues}

\* <<schema, <<runtimeEnv, envSource>>>> as passed to createEnv
EnvInputs ==
    (Schemas \X SourceArgs)
        \cup (NestedSchemas \X {<<Some(Plain(s)), None>> : s \in NestedSources})

\* The same with neither runtimeEnv nor envSource: the default source is read.
DefaultInputs == Schemas \X {<<None, None>>}

\* <<host, input>>: a call that reads the default source is made in every
\* host, a call that is given its source in the hosts of the mocks.
Calls == (MockHosts \X EnvInputs) \cup (Hosts \X DefaultInputs)

Tri == {"undefined", "true", "false"}
SkipArgs == {"undefined", "true"}
V_ == <<"V", "_">>
PrefixArgs == {None, Some(<< >>), Some(V_)}

\* Schemas of a later call on an object an earlier call left changed.
AgainSchemas ==
    {ZodAny, ZodObject(<<<<SECRET, "string">>>>), ZodObject(<<<<VITE_A, "string">>>>)}

\* Schemas of a createSplitEnv call: each written with its keys in one
\* order (the order of a schema's keys shows in the order of the issues
\* only, which the createEnv calls above cover).
SplitSchemas ==
    {s \in ObjectSchemas : Len(s.shape) = 2 => s.shape[1][1] = VITE_A}

SplitOpts(server, client, runtimeEnv, clientPrefix, skipValidation, onError) ==
    [server |-> server, client |-> client, runtimeEnv |-> runtimeEnv,
     clientPrefix |-> clientPrefix, skipValidation |-> skipValidation,
     onError |-> onError]

NoHost == [window |-> "undefined", processEnv |-> None, importMetaEnv |-> None]
NoCall == [fn |-> "none", host |-> NoHost, opts |-> << >>]
NoOut == [kind |-> "none", error |-> "none", value |-> EmptyMap, frozen |-> FALSE,
          alias |-> FALSE, message |-> << >>, issues |-> << >>,
          handlerCalls |-> << >>, calls |-> << >>]

\* Nothing has changed an ambient object yet and the caller holds no object
\* from an earlier call.
Pristine == ambient = InitialAmbient /\ ~held.has

Init ==
    /\ call = NoCall
    /\ out = NoOut
    /\ obj = EmptyMap
    /\ src = EmptyMap
    /\ assign = "none"
    /\ srcFrozen = FALSE
    /\ ambient = InitialAmbient
    /\ held = None

\* mock{Browser,Server}Environment(() => createEnv(opts)): the mock installs
\* the host's window and runs the call.  Calls with every input are made
\* while the process is pristine.
CallCreateEnv ==
    /\ call = NoCall
    /\ Pristine
    /\ \E c \in Calls, strict \in Tri, skip \in SkipArgs, onError \in BOOLEAN,
          prefix \in PrefixArgs, isServer \in Tri :
        LET h == c[1]
            o == EnvOpts(c[2][1], c[2][2][1], c[2][2][2], strict, skip, onError,
                         prefix, isServer)
            r == createEnv(o, h)
            source == ResolveSource(o, h)
        IN  /\ call' = [fn |-> "createEnv", host |-> h, opts |-> o]
            /\ out' = r
            /\ obj' = r.value
            /\ src' = source.entries
            /\ assign' = "none"
            /\ srcFrozen' = (source.frozen \/ FreezesSource(r))
            /\ UNCHANGED <<ambient, held>>

\* A later call of the same process, on the object an earlier call left
\* changed: the object the caller holds, or else the default source.
CallCreateEnvAgain ==
    /\ call = NoCall
    /\ ~Pristine
    /\ \E h \in Hosts, schema \in AgainSchemas, skip \in SkipArgs :
        LET o == EnvOpts(schema, held, None, "undefined", skip, FALSE, None, "undefined")
            r == createEnv(o, h)
            source == ResolveSource(o, h)
        IN  /\ call' = [fn |-> "createEnv", host |-> h, opts |-> o]
            /\ out' = r
            /\ obj' = r.value
            /\ src' = source.entries
            /\ assign' = "none"
            /\ srcFrozen' = (source.frozen \/ FreezesSource(r))
            /\ UNCHANGED <<ambient, held>>

\* mock{Browser,Server}Environment(() => createSplitEnv(opts))
CallCreateSplitEnv ==
    /\ call = NoCall
    /\ Pristine
    /\ \E h \in MockHosts, server \in SplitSchemas, client \in SplitSchemas,
          runtimeEnv \in Sources, prefix \in {<< >>, V_}, skip \in SkipArgs,
          onError \in BOOLEAN :
        LET o == SplitOpts(server, client, Plain(runtimeEnv), prefix, skip, onError)
            r == createSplitEnv(o, h)
        IN  /\ call' = [fn |-> "createSplitEnv", host |-> h, opts |-> o]
            /\ out' = r
            /\ obj' = r.value
            /\ src' = runtimeEnv
            /\ assign' = "none"
            /\ srcFrozen' = SplitFreezesSource(o, h)
            /\ UNCHANGED <<ambient, held>>

\* env.KEY = "new-value" in module (strict-mode) code: a frozen object
\* refuses with a TypeError; otherwise the field is written, and the write
\* lands in the source too when the returned object is the source itself.
AssignField ==
    /\ out.kind = "return"
    /\ \E k \in KeySet(obj) :
        IF out.frozen
        THEN /\ assign' = "TypeError"
             /\ UNCHANGED <<obj, src>>
        ELSE /\ assign' = "written"
             /\ obj' = Put(obj, k, NewValue)
             /\ src' = IF out.alias THEN Put(src, k, NewValue) ELSE src
    /\ UNCHANGED <<call, out, srcFrozen, ambient, held>>

\* The callback given to the mock ends: the window is restored and the result
\* goes out of scope.  Nothing else is restored: an ambient object stays as
\* the call and the writes left it, and the caller keeps a source object of
\* its own that was frozen or written to.
Finish ==
    /\ call # NoCall
    /\ LET kind == IF call.fn = "createEnv" THEN SourceKind(call.opts, call.host)
                   ELSE "caller"
           left == Ref(src, srcFrozen, kind # "processEnv")
       IN  /\ ambient' = IF kind = "processEnv" THEN [ambient EXCEPT !.processEnv = left]
                         ELSE IF kind = "importMetaEnv"
                              THEN [ambient EXCEPT !.importMetaEnv = left]
                         ELSE ambient
           /\ held' = IF kind = "caller" /\ (srcFrozen \/ (out.alias /\ assign = "written"))
                      THEN Some(left)
                      ELSE None
    /\ call' = NoCall
    /\ out' = NoOut
    /\ obj' = EmptyMap
    /\ src' = EmptyMap
    /\ assign' = "none"
    /\ srcFrozen' = FALSE

\* env.KEY read by the caller: the result is a plain object, so the read
\* never throws, and a missing field reads as undefined.
ReadField(o, k) ==
    [threw |-> FALSE, value |-> IF Has(o, k) THEN Get(o, k) ELSE Undefined]

Next ==
    \/ CallCreateEnv
    \/ CallCreateEnvAgain
    \/ CallCreateSplitEnv
    \/ AssignField
    \/ Finish

Spec == Init /\ [][Next]_vars

-----------------------------------------------------------------------------
(* Vocabulary of the properties *)

IsEnvCall == call.fn = "createEnv"
IsSplitCall == call.fn = "createSplitEnv"

\* A browser-like global exists / does not exist.
ClientContext == call.host.window = "object"
ServerContext == call.host.window \in {"undefined", "null"}

SkipRequested == call.opts.skipValidation = "true"

\* key begins with prefix, token by token
HasPrefix(key, prefix) ==
    /\ Len(prefix) <= Len(key)
    /\ \A i \in 1..Len(prefix) : key[i] = prefix[i]

\* The entries of source whose key begins with prefix, in source order.
PrefixedEntries(source, prefix) ==
    LET Prefixed(e) == HasPrefix(e[1], prefix) IN SelectSeq(source, Prefixed)
PrefixedKeys(source, prefix) == KeySet(PrefixedEntries(source, prefix))

\* The keys a record schema declares.
Declared(schema) == KeySet(schema.shape)

\* source holds a valid value for every key the record schema declares
Satisfies(source, schema) ==
    \A k \in Declared(schema) :
        Has(source, k) /\ FieldOk(Get(schema.shape, k), source, k)

\* o holds every field of the schema with its validated value
HoldsFields(o, source, schema) ==
    \A k \in Declared(schema) :
        Has(o, k) /\ Get(o, k) = FieldValue(Get(schema.shape, k), source, k)

\* The entries of the source a createSplitEnv call was given.
SplitSource == call.opts.runtimeEnv.entries

\* The split call's premise: key-disjoint schemas, a combined source valid
\* for both, client keys carrying the prefix, validation not skipped.
SplitPremise ==
    /\ IsSplitCall
    /\ call.opts.skipValidation = "undefined"
    /\ Declared(call.opts.server) \cap Declared(call.opts.client) = {}
    /\ Satisfies(SplitSource, call.opts.server)
    /\ Satisfies(SplitSource, call.opts.client)
    /\ \A k \in Declared(call.opts.client) : HasPrefix(k, call.opts.clientPrefix)

-----------------------------------------------------------------------------
(* C1: createEnv with isServer = true in a client context raises the       *)
(* server-only security error whatever skipValidation, onError,            *)
(* clientPrefix and the source are; the call stops at the guard (nothing   *)
(* resolved, filtered or validated, onError not invoked, nothing           *)
(* returned).  In a server context the guard does not raise.               *)
C1_ServerOnlyGuard ==
    (IsEnvCall /\ call.opts.isServer = "true") =>
        IF ClientContext
        THEN /\ out.kind = "throw"
             /\ out.error = "security"
             /\ out.message = SecurityMessage
             /\ Len(out.calls) = 1
             /\ out.calls[1].steps = <<"guard">>
             /\ ~out.calls[1].validated.has
             /\ out.handlerCalls = << >>
             /\ out.value = EmptyMap
             /\ obj = EmptyMap
        ELSE out.error # "security"

C1_Witness ==
    /\ IsEnvCall
    /\ call.opts.isServer = "true"
    /\ ClientContext
    /\ SkipRequested
    /\ call.opts.onError
    /\ call.opts.clientPrefix = Some(V_)
    /\ call.opts.runtimeEnv.has
    /\ call.opts.runtimeEnv.val.entries # << >>
    /\ out.error = "security"

(* C2: in a server context, for key-disjoint server and client schemas and *)
(* a combined source valid for every key of both (client keys carrying the *)
(* prefix, server keys not), createSplitEnv without skipValidation returns *)
(* an object holding every server and every client field with its          *)
(* validated value.                                                        *)
C2_SplitServerMerges ==
    (/\ SplitPremise
     /\ ServerContext
     /\ call.opts.clientPrefix # << >>
     /\ \A k \in Declared(call.opts.server) : ~HasPrefix(k, call.opts.clientPrefix)
     /\ KeySet(SplitSource) = Declared(call.opts.server) \cup Declared(call.opts.client)) =>
        /\ out.kind = "return"
        /\ HoldsFields(out.value, SplitSource, call.opts.server)
        /\ HoldsFields(out.value, SplitSource, call.opts.client)

(* C3: for every input that satisfies the schema (validation not skipped,  *)
(* guard not violated) createEnv returns the schema's parsed output,       *)
(* frozen: every attempt to reassign a top-level field fails and leaves    *)
(* the object as it was.                                                   *)
C3_FrozenParsedOutput ==
    (/\ IsEnvCall
     /\ ~SkipRequested
     /\ ~(call.opts.isServer = "true" /\ ClientContext)) =>
        LET handed == out.calls[1].handed
            parsed == SafeParse(FinalSchema(call.opts), handed)
        IN  parsed.success =>
                /\ out.kind = "return"
                /\ out.value = parsed.data
                /\ out.frozen
                /\ obj = parsed.data
                /\ assign \in {"none", "TypeError"}

(* C4: whenever createSplitEnv returns after validation (skipValidation    *)
(* unset), in the server context as in the client context, the returned    *)
(* object is frozen: reassigning a field fails and changes nothing.        *)
C4_SplitResultFrozen ==
    (IsSplitCall /\ call.opts.skipValidation = "undefined" /\ out.kind = "return") =>
        /\ assign # "written"
        /\ obj = out.value

(* C5: in a client context createSplitEnv makes one createEnv call, with   *)
(* the client schema, isServer = false and the prefix filter applied, and  *)
(* its outcome is the outcome; the server schema is never validated.  For  *)
(* key-disjoint schemas and a source valid for both, the object returned   *)
(* holds every client field and no server field.                           *)
C5_ClientOnlyOnClient ==
    (IsSplitCall /\ ClientContext) =>
        /\ Len(out.calls) = 1
        /\ out.calls[1].schema = call.opts.client
        /\ out.calls[1].isServer = "false"
        /\ out.calls[1].handed = PrefixedEntries(SplitSource, call.opts.clientPrefix)
        /\ (out.calls[1].validated.has =>
               out.calls[1].validated.val.shape = call.opts.client.shape)
        /\ (SplitPremise /\ out.kind = "return") =>
               /\ HoldsFields(out.value, SplitSource, call.opts.client)
               /\ KeySet(out.value) = Declared(call.opts.client)
               /\ KeySet(out.value) \cap Declared(call.opts.server) = {}
        /\ (/\ SplitPremise
            /\ PrefixedKeys(SplitSource, call.opts.clientPrefix)
                   \subseteq Declared(call.opts.client)) =>
               out.kind = "return"

C5_Witness ==
    /\ SplitPremise
    /\ ClientContext
    /\ Declared(call.opts.server) # {}
    /\ Declared(call.opts.client) # {}
    /\ call.opts.clientPrefix = V_
    /\ out.kind = "return"
    /\ KeySet(out.value) = Declared(call.opts.client)

(* C6: server vars throw an error if accessed on the client: in a client   *)
(* context, building the createSplitEnv object, or reading a field the     *)
(* server schema declares from it, raises.                                 *)
C6_ServerVarsThrowOnClient ==
    (/\ SplitPremise
     /\ ClientContext
     /\ call.opts.clientPrefix # << >>
     /\ Declared(call.opts.client) # {}
     /\ Declared(call.opts.server) # {}) =>
        \/ out.kind = "throw"
        \/ \A k \in Declared(call.opts.server) : ReadField(obj, k).threw

-----------------------------------------------------------------------------
\* The createEnv call got past the guard.
PastGuard == ~(call.opts.isServer = "true" /\ ClientContext)

\* The filter condition as the contract states it.
FilterApplies ==
    call.opts.clientPrefix.has /\ (ClientContext \/ call.opts.isServer = "false")

\* The entries of the source object the call read, as the caller passed it
\* or the host provided it.
SourcePassed ==
    IF IsSplitCall THEN call.opts.runtimeEnv
    ELSE ResolveSource(call.opts, call.host)

\* The mapping the contract says createEnv works on.
ExpectedMapping ==
    LET source == SourcePassed.entries IN
    IF FilterApplies THEN PrefixedEntries(source, call.opts.clientPrefix.val)
    ELSE source

(* C7: in createEnv the prefix filter is applied exactly when a            *)
(* clientPrefix is configured and (the context is client or isServer is    *)
(* explicitly false).  Applied, the mapping handed on holds exactly the    *)
(* source entries whose key starts with the prefix, so a non-prefixed key  *)
(* causes no strict-mode failure; not applied, it is the whole source,     *)
(* non-prefixed keys included.                                             *)
C7_PrefixFilter ==
    (IsEnvCall /\ PastGuard) =>
        LET source == SourcePassed.entries
            handed == out.calls[1].handed
            schema == call.opts.schema
        IN  /\ handed = ExpectedMapping
            /\ SkipRequested => out.value = handed
            /\ (/\ FilterApplies
                /\ ~SkipRequested
                /\ IsZodObject(schema)
                /\ PrefixedKeys(source, call.opts.clientPrefix.val)
                       \subseteq Declared(schema)) =>
                   \A n \in 1..Len(out.issues) : out.issues[n].path # << >>
            /\ (/\ ~FilterApplies
                /\ ~SkipRequested
                /\ IsZodObject(schema)
                /\ call.opts.strict # "false"
                /\ ~(KeySet(source) \subseteq Declared(schema))) =>
                   \E n \in 1..Len(out.issues) : out.issues[n].path = << >>

C7_Witness ==
    /\ IsEnvCall
    /\ ClientContext
    /\ call.opts.isServer = "undefined"
    /\ call.opts.clientPrefix = Some(V_)
    /\ call.opts.strict = "undefined"
    /\ ~SkipRequested
    /\ {VITE_A, vite_A} \subseteq KeySet(src)
    /\ out.kind = "return"
    /\ KeySet(out.calls[1].handed) = {VITE_A}
    /\ KeySet(obj) = {VITE_A}

(* C8: for a record schema and a filtered input holding valid values for   *)
(* all declared keys plus an undeclared key, createEnv with strict true or *)
(* omitted fails validation, and with strict false succeeds with the       *)
(* undeclared key absent from the result.  A schema that is not a          *)
(* fixed-shape record is used unchanged whatever strict is.                *)
C8_StrictMode ==
    (IsEnvCall /\ PastGuard /\ ~SkipRequested) =>
        LET handed == out.calls[1].handed
            schema == call.opts.schema
        IN  /\ (/\ IsZodObject(schema)
                /\ Satisfies(handed, schema)
                /\ ~(KeySet(handed) \subseteq Declared(schema))) =>
                   IF call.opts.strict \in {"undefined", "true"}
                   THEN /\ out.kind = "throw"
                        /\ out.error \in {"validation", "handler"}
                        /\ \E n \in 1..Len(out.issues) : out.issues[n].path = << >>
                   ELSE /\ out.kind = "return"
                        /\ KeySet(out.value) = Declared(schema)
                        /\ HoldsFields(out.value, handed, schema)
            /\ ~IsZodObject(schema) => out.calls[1].validated = Some(schema)

C8_Witness ==
    /\ IsEnvCall
    /\ PastGuard
    /\ call.opts.strict = "false"
    /\ IsZodObject(call.opts.schema)
    /\ Declared(call.opts.schema) # {}
    /\ ~(KeySet(out.calls[1].handed) \subseteq Declared(call.opts.schema))
    /\ out.kind = "return"
    /\ out.frozen
    /\ KeySet(obj) = Declared(call.opts.schema)

(* C9: with skipValidation true and the guard not violated, createEnv      *)
(* returns the (optionally prefix-filtered) raw mapping with every value   *)
(* unchanged, also for sources that fail the schema: nothing is coerced or *)
(* defaulted, nothing is validated, no error is raised and onError is not  *)
(* invoked.  createSplitEnv in a server context with skipValidation true   *)
(* returns every entry of the source with its raw value.                   *)
C9_SkipValidation ==
    /\ (IsEnvCall /\ PastGuard /\ SkipRequested) =>
           /\ out.kind = "return"
           /\ out.value = ExpectedMapping
           /\ out.handlerCalls = << >>
           /\ out.issues = << >>
           /\ ~out.calls[1].validated.has
    /\ (IsSplitCall /\ ServerContext /\ SkipRequested) =>
           /\ out.kind = "return"
           /\ out.value = SplitSource
           /\ out.handlerCalls = << >>

C9_Witness ==
    /\ IsEnvCall
    /\ SkipRequested
    /\ call.opts.onError
    /\ call.opts.strict = "undefined"
    /\ IsZodObject(call.opts.schema)
    /\ VITE_A \in Declared(call.opts.schema)
    /\ Get(call.opts.schema.shape, VITE_A) = "number"
    /\ out.kind = "return"
    /\ assign = "none"
    /\ Has(obj, VITE_A)
    /\ Get(obj, VITE_A) = Str("abc")
    /\ ~SafeParse(FinalSchema(call.opts), obj).success

\* text.split(sep), over token sequences
RECURSIVE SplitOn(_, _)
SplitOn(text, sep) ==
    IF \A i \in 1..Len(text) : text[i] # sep THEN <<text>>
    ELSE LET i == CHOOSE j \in 1..Len(text) :
                      text[j] = sep /\ \A m \in 1..(j - 1) : text[m] # sep
         IN  <<SubSeq(text, 1, i - 1)>> \o SplitOn(SubSeq(text, i + 1, Len(text)), sep)

\* line is "<dotted path or (root)>: <message>" for the issue
LineReports(line, issue) ==
    /\ Len(line) >= 3
    /\ line[Len(line)] = issue.message
    /\ line[Len(line) - 1] = ": "
    /\ LET where == SubSeq(line, 1, Len(line) - 2) IN
       IF issue.path = << >> THEN where = <<"(root)">>
       ELSE SplitOn(where, ".") = issue.path

\* The declared keys that fail on handed, in declaration order.
FailingKeys(schema, handed) == KeysOf(FailingFields(schema.shape, handed))

(* C10: when validation fails and no onError handler is supplied, createEnv *)
(* raises one error whose message is the header "Invalid environment       *)
(* variables:" followed by exactly one line per validation issue, in issue *)
(* order, each line the issue's dotted path (or "(root)" for an empty      *)
(* path), ": " and the issue's message; every failing field appears, a     *)
(* record schema's fields in the order the schema declares them.           *)
C10_ErrorReport ==
    (IsEnvCall /\ PastGuard /\ ~SkipRequested /\ ~call.opts.onError) =>
        LET handed == out.calls[1].handed
            schema == call.opts.schema
            parsed == SafeParse(FinalSchema(call.opts), handed)
            lines == SplitOn(out.message, "\n")
        IN  ~parsed.success =>
                /\ out.kind = "throw"
                /\ out.error = "validation"
                /\ out.issues = parsed.issues
                /\ Len(lines) = Len(out.issues) + 1
                /\ lines[1] = <<ValidationHeader>>
                /\ \A n \in 1..Len(out.issues) : LineReports(lines[n + 1], out.issues[n])
                /\ IsZodObject(schema) =>
                       LET failing == FailingKeys(schema, handed) IN
                       /\ Len(failing) <= Len(out.issues)
                       /\ \A n \in 1..Len(failing) :
                              /\ out.issues[n].path # << >>
                              /\ out.issues[n].path[1] = failing[n]
                              /\ Len(lines[n + 1]) > Len(failing[n])
                              /\ SubSeq(lines[n + 1], 1, Len(failing[n])) = failing[n]

C10_Witness ==
    /\ IsEnvCall
    /\ out.error = "validation"
    /\ ~call.opts.onError
    /\ Len(out.issues) = 2
    /\ Len(out.issues[1].path) = 2
    /\ Len(out.issues[2].path) = 0
    /\ Len(SplitOn(out.message, "\n")) = 3

(* C11: when an onError handler is supplied and validation fails in        *)
(* createEnv, the handler is invoked exactly once, with the full issue list *)
(* of the failed parse; the default "Invalid environment variables" error  *)
(* is not raised and the caller observes what the handler raises.  When    *)
(* validation succeeds, is skipped, or the guard stops the call, the       *)
(* handler is not invoked.                                                 *)
C11_OnErrorHandler ==
    (IsEnvCall /\ call.opts.onError) =>
        LET validates == PastGuard /\ ~SkipRequested
            parsed == SafeParse(FinalSchema(call.opts), ExpectedMapping)
        IN  IF validates /\ ~parsed.success
            THEN /\ out.kind = "throw"
                 /\ out.error = "handler"
                 /\ Len(out.handlerCalls) = 1
                 /\ out.handlerCalls[1] = parsed.issues
                 /\ \A i \in 1..Len(out.message) : out.message[i] # ValidationHeader
            ELSE /\ out.handlerCalls = << >>
                 /\ out.error # "handler"

C11_Witness ==
    /\ IsEnvCall
    /\ call.opts.onError
    /\ out.error = "handler"
    /\ Len(out.handlerCalls) = 1
    /\ Len(out.handlerCalls[1]) = 2
    /\ out.handlerCalls[1][1].path = <<VITE_A>>
    /\ out.handlerCalls[1][2].path = << >>

(* C12: no call mutates the source it reads: once createEnv or             *)
(* createSplitEnv has run, on whichever path, and before the caller writes *)
(* to the result, the source has the keys and values it was passed with    *)
(* and is as mutable as it was before the call.                            *)
C12_SourceNeverMutated ==
    (call # NoCall /\ assign = "none" /\ SourcePassed.entries # << >>) =>
        /\ src = SourcePassed.entries
        /\ srcFrozen = SourcePassed.frozen

\* What a createEnv call on schema returns for the mapping handed to it:
\* the mapping itself when validation is skipped, the validated fields
\* otherwise.
SubResult(schema, handed) ==
    IF SkipRequested THEN handed
    ELSE [i \in 1..Len(schema.shape) |->
            <<schema.shape[i][1],
              FieldValue(schema.shape[i][2], handed, schema.shape[i][1])>>]

(* C13: in a server context createSplitEnv first runs createEnv on the     *)
(* server schema with isServer true, no prefix and the whole source, and,  *)
(* when that returned, on the client schema with isServer false, the       *)
(* prefix and the prefix-filtered source; when both returned it returns    *)
(* their shallow merge, and a key present in both sub-results holds the    *)
(* client sub-result's value.                                              *)
C13_SplitServerThenClient ==
    (IsSplitCall /\ ServerContext) =>
        LET o == call.opts
            n == Len(out.calls)
            prefixed == PrefixedEntries(SplitSource, o.clientPrefix)
            serverSub == SubResult(o.server, SplitSource)
            clientSub == SubResult(o.client, prefixed)
        IN  /\ n \in {1, 2}
            /\ out.calls[1].schema = o.server
            /\ out.calls[1].isServer = "true"
            /\ ~out.calls[1].clientPrefix.has
            /\ out.calls[1].handed = SplitSource
            /\ ~SkipRequested => out.calls[1].validated.has
            /\ n = 1 => out.kind = "throw"
            /\ n = 2 =>
                   /\ out.calls[2].schema = o.client
                   /\ out.calls[2].isServer = "false"
                   /\ out.calls[2].clientPrefix = Some(o.clientPrefix)
                   /\ out.calls[2].handed = prefixed
                   /\ ~SkipRequested => out.calls[2].validated.has
            /\ out.kind = "return" =>
                   /\ n = 2
                   /\ KeySet(out.value) = KeySet(serverSub) \cup KeySet(clientSub)
                   /\ \A k \in KeySet(clientSub) : Get(out.value, k) = Get(clientSub, k)
                   /\ \A k \in KeySet(serverSub) \ KeySet(clientSub) :
                          Get(out.value, k) = Get(serverSub, k)

C13_Witness ==
    /\ IsSplitCall
    /\ ServerContext
    /\ ~SkipRequested
    /\ out.kind = "return"
    /\ assign = "none"
    /\ call.opts.server.shape = <<<<VITE_A, "string">>>>
    /\ call.opts.client.shape = <<<<VITE_A, "number">>>>
    /\ call.opts.clientPrefix = V_
    /\ src = <<<<VITE_A, Str("4000")>>>>
    /\ obj = <<<<VITE_A, Num("4000")>>>>

\* What the caller of a call observes: the mapping returned, or the error
\* raised and what the handler was given.
Observed(r) ==
    [kind |-> r.kind, error |-> r.error, value |-> r.value, message |-> r.message,
     issues |-> r.issues, handlerCalls |-> r.handlerCalls]

\* The call of the current state, made again in the same host with the
\* explicit source replaced by a literal with the entries given.
SameCallOn(entries) ==
    IF IsSplitCall
    THEN createSplitEnv([call.opts EXCEPT !.runtimeEnv = Plain(entries)], call.host)
    ELSE createEnv([call.opts EXCEPT !.runtimeEnv = Some(Plain(entries))], call.host)

\* The client prefix of the current call, as a string ("" when absent).
PrefixOfCall ==
    IF IsSplitCall THEN call.opts.clientPrefix
    ELSE IF call.opts.clientPrefix.has THEN call.opts.clientPrefix.val
    ELSE << >>

\* Sources the caller could have passed instead.
OtherSources == Sources \cup NestedSources

(* C14: in a client context, createSplitEnv, and createEnv with a non-empty *)
(* clientPrefix and isServer not true, called on an explicit source, have  *)
(* the same outcome (returned mapping, or error and issues) on every other *)
(* source that agrees with it on the entries whose key starts with the     *)
(* prefix, with or without skipValidation; and no non-prefixed entry of    *)
(* the source appears in the result with its value.                        *)
C14_ClientNoninterference ==
    (/\ call # NoCall
     /\ ClientContext
     /\ IsEnvCall =>
            /\ call.opts.runtimeEnv.has
            /\ PrefixOfCall # << >>
            /\ call.opts.isServer # "true") =>
        LET source == SourcePassed.entries
            prefix == PrefixOfCall
        IN  /\ \A other \in OtherSources :
                   PrefixedEntries(other, prefix) = PrefixedEntries(source, prefix) =>
                       Observed(SameCallOn(other)) = Observed(out)
            /\ \A k \in KeySet(source) :
                   ~HasPrefix(k, prefix) =>
                       \/ ~Has(out.value, k)
                       \/ Get(out.value, k) # Get(source, k)

C14_Witness ==
    /\ call # NoCall
    /\ ClientContext
    /\ PrefixOfCall = V_
    /\ IsEnvCall => call.opts.runtimeEnv.has /\ call.opts.isServer # "true"
    /\ SkipRequested
    /\ assign = "none"
    /\ KeySet(src) = {VITE_A, SECRET}
    /\ out.kind = "return"
    /\ KeySet(out.value) = {VITE_A}
    /\ \E other \in OtherSources :
           /\ Has(other, SECRET)
           /\ Get(other, SECRET) # Get(src, SECRET)
           /\ PrefixedEntries(other, V_) = PrefixedEntries(src, V_)
           /\ Observed(SameCallOn(other)) = Observed(out)

====
